---- MODULE Spec2Model ----
(***************************************************************************)
(* Conway's Game of Life and its variants (HighLife, Day & Night, Seeds)   *)
(* as implemented in main.py: the neighbour classifier get_neighbours,     *)
(* the four generation-update functions and the driver loop of main().     *)
(*                                                                         *)
(* A set object of Python is a heap cell: a Grid holds a reference to its  *)
(* set of live cells, so that copying (deepcopy) and aliasing differ.      *)
(***************************************************************************)
EXTENDS Integers, FiniteSets, Sequences

VARIABLES
    grid,       \* main(): the current Grid, [dim, cells] with cells a reference
    heap,       \* the set objects: reference -> set of <<x, y>>
    pc,         \* position of the driver loop / of the running update call
    fn,         \* main(): update_function, the variant chosen for this tick
    new_cells,  \* update_*: reference held by the local new_cells
    undead,     \* update_*: the tally, dead position -> count
    ret,        \* the Grid returned by the call, before main() assigns it
    pre,        \* value of the input Grid (dim and live cells) at call entry
    ticks       \* number of loop iterations completed

vars == <<grid, heap, pc, fn, new_cells, undead, ret, pre, ticks>>

(***************************************************************************)
(* Bounds of the model.                                                    *)
(***************************************************************************)
\* Width of the seeded grid; its height is 3, the least that holds a whole
\* Moore neighbourhood, so that every neighbour count 0..8 occurs.
BoxW == 3
\* Number of iterations of the driver loop that are explored.
MaxTicks == 2

(***************************************************************************)
(* Data model (grid_defs: Dim, Grid, Neighbours).                          *)
(***************************************************************************)
dim == [width |-> BoxW, height |-> 3]

None == "None"
Refs == {"r1", "r2"}
NoGrid == [dim |-> [width |-> 0, height |-> 0], cells |-> None]
NoTally == [p \in {} |-> 0]

\* The live cells of Grid g in heap h (g.cells dereferenced).
Cells(h, g) == h[g.cells]

\* copy.deepcopy(grid.cells): a fresh set object with the same elements.
\* Returns the heap after the allocation and the new reference.
\* (Faulty variant: new_cells = grid.cells, no copy.)
deepcopyAlias(h, r) == [heap |-> h, ref |-> r]
deepcopy(h, r) ==
    LET fresh == CHOOSE f \in Refs : f # r
    IN  [heap |-> [h EXCEPT ![fresh] = h[r]], ref |-> fresh]

(***************************************************************************)
(* get_neighbours                                                          *)
(***************************************************************************)
\* (Faulty variant: the last offset is (0, 0) instead of (1, 1).)
offsetsNoCorner ==
    << <<-1, -1>>, <<0, -1>>, <<1, -1>>, <<-1, 0>>,
       <<1, 0>>, <<-1, 1>>, <<0, 1>>, <<0, 0>> >>
offsets ==
    << <<-1, -1>>, <<0, -1>>, <<1, -1>>, <<-1, 0>>,
       <<1, 0>>, <<-1, 1>>, <<0, 1>>, <<1, 1>> >>

get_neighbours(cells, x, y) ==
    LET possible_neighbours ==
            { <<x + offsets[i][1], y + offsets[i][2]>> : i \in DOMAIN offsets }
        alive == { pos \in possible_neighbours : pos \in cells }
    IN  [alive |-> alive, dead |-> possible_neighbours \ alive]

(***************************************************************************)
(* The variants: the test that removes a live cell and the test that adds  *)
(* a tallied dead position.                                                *)
(***************************************************************************)
\* Each test is preceded, where a property is tested against it, by a faulty
\* variant of the same test.
update_grid_survivesOnly3(a) == a \in {3}
update_grid_survives(a) == a \in {2, 3}

update_grid_bornAlso2(c) == c \in {2, 3}
update_grid_born(c) == c = 3

update_grid_highlife_survives(a) == a \in {2, 3}

update_grid_highlife_bornNo6(c) == c \in {3}
update_grid_highlife_born(c) == c \in {3, 6}

update_grid_day_night_survivesNo8(a) == a \in {3, 4, 6, 7}
update_grid_day_night_survives(a) == a \in {3, 4, 6, 7, 8}

update_grid_day_night_born(c) == c \in {3, 6, 7, 8}

\* update_grid_seeds has no removal in its loop: the neighbour count is not
\* looked at and new_cells keeps every cell of the copy.
update_grid_seeds_survives(a) == TRUE

update_grid_seeds_born3(c) == c = 3
update_grid_seeds_born(c) == c = 2

\* main() enables a list of variants and draws one per tick; the list in the
\* source holds update_grid and the comment above it names the four that may
\* be put in it.  The model enables all four.
update_functions ==
    {"update_grid", "update_grid_highlife", "update_grid_day_night",
     "update_grid_seeds"}

Survives(f, a) ==
    CASE f = "update_grid" -> update_grid_survives(a)
      [] f = "update_grid_highlife" -> update_grid_highlife_survives(a)
      [] f = "update_grid_day_night" -> update_grid_day_night_survives(a)
      [] f = "update_grid_seeds" -> update_grid_seeds_survives(a)

Born(f, c) ==
    CASE f = "update_grid" -> update_grid_born(c)
      [] f = "update_grid_highlife" -> update_grid_highlife_born(c)
      [] f = "update_grid_day_night" -> update_grid_day_night_born(c)
      [] f = "update_grid_seeds" -> update_grid_seeds_born(c)

(***************************************************************************)
(* The survival pass: for x, y in grid.cells                               *)
(***************************************************************************)
\* for pos in dead_neighbours: undead[pos] += 1, undead a defaultdict(int).
\* (Faulty variant: undead[pos] = 1.)
TallyDeadSetOne(u, dead) ==
    [q \in (DOMAIN u) \cup dead |-> IF q \in dead THEN 1 ELSE u[q]]
TallyDead(u, dead) ==
    [q \in (DOMAIN u) \cup dead |->
        (IF q \in DOMAIN u THEN u[q] ELSE 0) + (IF q \in dead THEN 1 ELSE 0)]

\* The loop over the live cells, in the order the set yields them (todo is
\* what the iterator has not yielded yet).  Each iteration reads grid.cells
\* through the heap and removes from the object new_cells refers to.
RECURSIVE SurvivalLoop(_, _, _, _, _, _)
SurvivalLoop(todo, g, nc, f, h, u) ==
    IF todo = {} THEN [heap |-> h, undead |-> u]
    ELSE
        LET c == CHOOSE e \in todo : TRUE
            n == get_neighbours(Cells(h, g), c[1], c[2])
            h2 == IF Survives(f, Cardinality(n.alive))
                  THEN h
                  ELSE [h EXCEPT ![nc] = @ \ {c}]
        IN  SurvivalLoop(todo \ {c}, g, nc, f, h2, TallyDead(u, n.dead))

(***************************************************************************)
(* The birth pass: the tallied positions the variant's test accepts.       *)
(***************************************************************************)
DimPositions(d) == (0 .. d.width - 1) \X (0 .. d.height - 1)

\* (Faulty variant: every position of dim is scanned, the test negated.)
BirthsDenseInverted(f, u, d) ==
    { pos \in DimPositions(d) :
        ~Born(f, IF pos \in DOMAIN u THEN u[pos] ELSE 0) }
Births(f, u, d) == { pos \in DOMAIN u : Born(f, u[pos]) }

(***************************************************************************)
(* generate_random_grid: every cell of dim is live or not, independently.  *)
(***************************************************************************)
generate_random_grid(d) == SUBSET DimPositions(d)

Init ==
    /\ \E seed \in generate_random_grid(dim) :
          heap = [r \in Refs |-> IF r = "r1" THEN seed ELSE {}]
    /\ grid = [dim |-> dim, cells |-> "r1"]
    /\ pc = "loop"
    /\ fn = None
    /\ new_cells = None
    /\ undead = NoTally
    /\ ret = NoGrid
    /\ pre = [dim |-> dim, cells |-> {}]
    /\ ticks = 0

(***************************************************************************)
(* main(): the driver loop                                                 *)
(***************************************************************************)
\* pygame.QUIT among the polled events: sys.exit(0).  The process ends and
\* its objects with it.
Quit ==
    /\ pc = "loop"
    /\ pc' = "exit"
    /\ grid' = NoGrid
    /\ heap' = [r \in Refs |-> {}]
    /\ fn' = None
    /\ pre' = [dim |-> NoGrid.dim, cells |-> {}]
    /\ ticks' = 0
    /\ UNCHANGED <<new_cells, undead, ret>>

\* random.choice(update_functions), and the entry of the chosen function:
\* new_cells = deepcopy(grid.cells); undead = defaultdict(int).
Call ==
    /\ pc = "loop"
    /\ ticks < MaxTicks
    /\ \E f \in update_functions : fn' = f
    /\ LET cp == deepcopy(heap, grid.cells)
       IN  /\ heap' = cp.heap
           /\ new_cells' = cp.ref
    /\ undead' = NoTally
    /\ pre' = [dim |-> grid.dim, cells |-> Cells(heap, grid)]
    /\ pc' = "survival"
    /\ UNCHANGED <<grid, ret, ticks>>

\* The whole first loop of the update function.
SurvivalPass ==
    /\ pc = "survival"
    /\ LET r == SurvivalLoop(Cells(heap, grid), grid, new_cells, fn, heap, undead)
       IN  /\ heap' = r.heap
           /\ undead' = r.undead
    /\ pc' = "birth"
    /\ UNCHANGED <<grid, fn, new_cells, ret, pre, ticks>>

\* The second loop: new_cells.add for the tallied positions that pass the
\* test; then return Grid(grid.dim, new_cells).
BirthPass ==
    /\ pc = "birth"
    /\ heap' = [heap EXCEPT ![new_cells] = @ \cup Births(fn, undead, grid.dim)]
    /\ ret' = [dim |-> grid.dim, cells |-> new_cells]
    /\ pc' = "assign"
    /\ UNCHANGED <<grid, fn, new_cells, undead, pre, ticks>>

\* grid = update_function(grid); the locals of the call are gone and the set
\* object of the previous grid, no longer referenced, is reclaimed.
Assign ==
    /\ pc = "assign"
    /\ grid' = ret
    /\ heap' = [r \in Refs |-> IF r = ret.cells THEN heap[r] ELSE {}]
    /\ new_cells' = None
    /\ undead' = NoTally
    /\ ret' = NoGrid
    /\ ticks' = ticks + 1
    /\ pc' = "loop"
    /\ UNCHANGED <<fn, pre>>

Next == Quit \/ Call \/ SurvivalPass \/ BirthPass \/ Assign

Spec == Init /\ [][Next]_vars

(***************************************************************************)
(* Reference notions, stated without the code's offsets or tally.          *)
(***************************************************************************)
Min(S) == CHOOSE m \in S : \A n \in S : m <= n
Max(S) == CHOOSE m \in S : \A n \in S : m >= n

\* The positions a claim about one call on input cells is checked at: the
\* bounding box of the live cells (of dim when there is none) and one ring
\* beyond.  Every position outside it has no live neighbour, and a set that
\* equals a subset of the region has no element outside it.
Region(cells) ==
    LET ext == IF cells = {} THEN DimPositions(dim) ELSE cells
        xs == { p[1] : p \in ext }
        ys == { p[2] : p \in ext }
    IN  ((Min(xs) - 1) .. (Max(xs) + 1)) \X ((Min(ys) - 1) .. (Max(ys) + 1))

\* The 8 Moore neighbours of p.
Moore(p) ==
    { q \in ((p[1] - 1) .. (p[1] + 1)) \X ((p[2] - 1) .. (p[2] + 1)) : q # p }

\* Number of live Moore neighbours of p in the set cells.
LiveCount(cells, p) == Cardinality(cells \cap Moore(p))

\* The next generation of cells under survival counts S and birth counts B.
NextGeneration(cells, S, B) ==
    { p \in Region(cells) :
        LiveCount(cells, p) \in (IF p \in cells THEN S ELSE B) }

Returned(f) == pc = "assign" /\ fn = f

\* A coordinate far from every grid of the model.
Far == { <<-1000, 2000>> }

Vertical == { <<1, 0>>, <<1, 1>>, <<1, 2>> }
Horizontal == { <<0, 1>>, <<1, 1>>, <<2, 1>> }

(***************************************************************************)
(* Claims                                                                  *)
(***************************************************************************)

\* C1: after update_grid_seeds, no cell that was live in the input grid is
\* live in the returned grid.
C1_SeedsTotalDeath ==
    Returned("update_grid_seeds") => pre.cells \cap Cells(heap, ret) = {}

\* C2: update_grid returns exactly the Conway next generation: live with 2
\* or 3 live neighbours, or dead with exactly 3.
C2_ConwayNextGeneration ==
    Returned("update_grid") =>
        Cells(heap, ret) = NextGeneration(pre.cells, {2, 3}, {3})

C2_Witness ==
    /\ Returned("update_grid")
    /\ \E p \in pre.cells : p \notin Cells(heap, ret)
    /\ \E p \in pre.cells : p \in Cells(heap, ret)
    /\ \E p \in Cells(heap, ret) : p \notin pre.cells

C4_DayNightNextGeneration ==
    Returned("update_grid_day_night") =>
        Cells(heap, ret) = NextGeneration(pre.cells, {3, 4, 6, 7, 8}, {3, 6, 7, 8})

C4_Witness ==
    /\ Returned("update_grid_day_night")
    /\ \E p \in pre.cells \cap Cells(heap, ret) : LiveCount(pre.cells, p) = 8
    /\ \E p \in pre.cells \ Cells(heap, ret) : LiveCount(pre.cells, p) = 5

\* C5: a position dead in the input is live after update_grid_seeds if and
\* only if it has exactly 2 live neighbours in the input.
C5_SeedsBirth ==
    Returned("update_grid_seeds") =>
        \A p \in Region(pre.cells) \ pre.cells :
            p \in Cells(heap, ret) <=> LiveCount(pre.cells, p) = 2

C5_Witness ==
    /\ Returned("update_grid_seeds")
    /\ \E p \in Cells(heap, ret) \ pre.cells : LiveCount(pre.cells, p) = 2
    /\ \E p \in Region(pre.cells) \ pre.cells :
          LiveCount(pre.cells, p) = 3 /\ p \notin Cells(heap, ret)

\* C6: for every grid and every coordinate, live or not, get_neighbours
\* returns disjoint sets alive and dead whose union is the 8 Moore neighbours
\* (never the coordinate itself), with |alive| + |dead| = 8, alive being the
\* neighbours in grid.cells and dead those that are not.
C6_NeighbourPartition ==
    pc = "survival" =>
        \A p \in Region(Cells(heap, grid)) \cup Far :
            LET n == get_neighbours(Cells(heap, grid), p[1], p[2])
            IN  /\ n.alive \cap n.dead = {}
                /\ n.alive \cup n.dead = Moore(p)
                /\ p \notin n.alive \cup n.dead
                /\ Cardinality(n.alive) + Cardinality(n.dead) = 8
                /\ n.alive = Moore(p) \cap Cells(heap, grid)
                /\ n.dead = Moore(p) \ Cells(heap, grid)

C6_Witness ==
    /\ pc = "survival"
    /\ \E p \in Region(Cells(heap, grid)) \ Cells(heap, grid) :
          LET n == get_neighbours(Cells(heap, grid), p[1], p[2])
          IN  Cardinality(n.alive) = 3 /\ Cardinality(n.dead) = 5
    /\ \E p \in Cells(heap, grid) :
          LET n == get_neighbours(Cells(heap, grid), p[1], p[2])
          IN  Cardinality(n.alive) = 8 /\ n.dead = {}

\* C7: every variant maps the empty grid to the empty grid, so once the
\* driver's grid is empty it is empty after every later step of the running
\* loop, whatever variant each tick chooses.
C7_EmptyFixedPoint ==
    [][(pc # "exit" /\ pc' # "exit" /\ Cells(heap, grid) = {}) =>
          /\ Cells(heap', grid') = {}
          /\ pc' = "assign" => Cells(heap', ret') = {}]_vars

C7_Witness ==
    /\ pc = "assign"
    /\ ticks = 1
    /\ pre.cells = {}
    /\ Cells(heap, ret) = {}

\* C8: update_grid maps the vertical blinker {(1,0),(1,1),(1,2)} to the
\* horizontal one {(0,1),(1,1),(2,1)} and the horizontal one back to the
\* vertical one, so ticks of update_grid alternate between the two.
C8_Blinker ==
    Returned("update_grid") =>
        /\ pre.cells = Vertical => Cells(heap, ret) = Horizontal
        /\ pre.cells = Horizontal => Cells(heap, ret) = Vertical

C8_Witness ==
    /\ Returned("update_grid")
    /\ ticks = 1
    /\ pre.cells = Horizontal
    /\ Cells(heap, ret) = Vertical

\* C9: during and after an update call the input grid has the live cells and
\* the dim it had at call entry; the result is a separate set object and the
\* returned grid has the input's dim.
C9_NonMutation ==
    pc \in {"survival", "birth", "assign"} =>
        /\ Cells(heap, grid) = pre.cells
        /\ grid.dim = pre.dim
        /\ new_cells # grid.cells
        /\ pc = "assign" => ret.dim = pre.dim /\ ret.cells = new_cells

C9_Witness ==
    /\ pc = "assign"
    /\ \E p \in pre.cells : p \notin Cells(heap, ret)
    /\ \E p \in Cells(heap, ret) : p \notin pre.cells
    /\ Cells(heap, grid) = pre.cells

\* C10: when the survival pass has finished, the keys of undead are exactly
\* the positions dead in the input with at least one live neighbour, each
\* mapped to its number of live neighbours (1..8); no live cell is a key, and
\* the birth pass adds no cell that was live.
C10_Tally ==
    /\ pc = "birth" =>
          /\ DOMAIN undead =
                { p \in Region(pre.cells) \ pre.cells :
                    LiveCount(pre.cells, p) >= 1 }
          /\ \A p \in DOMAIN undead :
                undead[p] = LiveCount(pre.cells, p) /\ undead[p] \in 1 .. 8
          /\ DOMAIN undead \cap pre.cells = {}
          /\ Births(fn, undead, grid.dim) \cap pre.cells = {}

C10_Witness ==
    /\ pc = "birth"
    /\ \E p \in DOMAIN undead : undead[p] = 8
    /\ \E p \in DOMAIN undead : undead[p] = 1

====
